----------------------------- MODULE Spec2Model -----------------------------
(***************************************************************************)
(* The market core of moonship: the Order Book, the Market facade, the     *)
(* Market Feed's dispatch and the Market Manager.                          *)
(*                                                                         *)
(* The repository holds two drafts of the same classes:                    *)
(*   "core"  src/moonship/core/market.py  (OrderBook with clear and the    *)
(*           removal of price levels, Market gated on CLOSED)              *)
(*   "old"   src/moonship/market.py       (OrderBook without them, Market  *)
(*           gated on DISABLED, and the only MarketManager)                *)
(* The variable draft says which draft's classes a run uses.  The          *)
(* MarketManager of src/moonship/market.py is the manager of both: it      *)
(* reaches the Market only through _status, _current_price, _order_book    *)
(* and _feed, which both drafts have.                                      *)
(*                                                                         *)
(* Amounts (decimal.Decimal in the code) are integers in hundredths:       *)
(* 10050 is 100.50.                                                        *)
(***************************************************************************)
EXTENDS Integers, Sequences, FiniteSets, TLC

VARIABLES
    draft,          \* "core" or "old": which file's classes are in use
    book,           \* OrderBook: bids, asks, order_entry_index and the entry objects
    status,         \* Market._status
    current_price,  \* Market._current_price
    subscribers,    \* MarketFeed.subscribers (a list)
    ready,          \* the event loop's FIFO of tasks that are ready to run
    suspended,      \* handlers that have started and are waiting at an await
    npublished,     \* number of events raised so far
    client_calls,   \* invocations the MarketClient has recorded
    last_cmd,       \* history: the last command called on the Market and how it ended
    hist,           \* history: the last event the manager handled, and the state before it
    synced,         \* history: the manager has applied an OrderBookInit event
    started,        \* history: per subscriber, the publish number of the handler started last
    owed,           \* history: the deliveries raise_event owes and no handler has begun
    peer,           \* a second Market, constructed on a second feed instance
    seen,           \* what a reader task has read from the Market last
    market_info,    \* ValrClient.market_info: the class-level cache, symbol -> status
    market_info_lock,   \* ValrClient.market_info_lock: its holder and its waiters
    info_calls      \* the calls of get_market_info made so far, and where each is

vars == <<draft, book, status, current_price, subscribers, ready, suspended, npublished,
          client_calls, last_cmd, hist, synced, started, owed, peer, seen,
          market_info, market_info_lock, info_calls>>

-----------------------------------------------------------------------------
(* Bounds *)

MaxEvents == 3      \* events raised on the feed in one run before the producer stops

MaxDispatched == 2  \* events raised in one run when the dispatch is explored

MaxCalls == 2       \* invocations the client counts before the callers stop

MaxShared == 3      \* events raised in one run on the feeds of two Markets

MaxRead == 3        \* events raised in one run beside a reader task

MaxFailing == 4     \* events raised in one run when failing handlers are explored

MaxDelivered == 2   \* events raised in one run when the loop is taken to be fair

MaxInfoCalls == 2   \* calls of ValrClient.get_market_info in one run

-----------------------------------------------------------------------------
(* Values *)

Drafts == {"core", "old"}
OrderIds == {"id1", "id2"}
Prices == {10000, 10050}
OrderActions == {"BUY", "SELL"}

\* MarketStatus members each draft names.
MarketStatuses == IF draft = "core" THEN {"OPEN", "CLOSED"} ELSE {"ACTIVE", "DISABLED"}


-----------------------------------------------------------------------------
(* Python dict / SortedDict as functions on the set of their keys *)

Put(d, k, v) == [x \in (DOMAIN d) \cup {k} |-> IF x = k THEN v ELSE d[x]]

Del(d, k) == [x \in (DOMAIN d) \ {k} |-> d[x]]

EmptyDict == [x \in {} |-> 0]

SetMax(S) == CHOOSE x \in S : \A y \in S : y <= x

SetMin(S) == CHOOSE x \in S : \A y \in S : x <= y

-----------------------------------------------------------------------------
(* OrderBookEntry objects.  An entry is an object with an identity: the    *)
(* sorted collections and the reverse index hold references to it, and an  *)
(* entry deleted from its collection lives on while the index refers to    *)
(* it.  book.entries maps the references in use to the objects.            *)

EntryRefs == 1 .. (2 * Cardinality(Prices) + Cardinality(OrderIds))

EmptyBook == [bids |-> EmptyDict, asks |-> EmptyDict,
              order_entry_index |-> EmptyDict, entries |-> EmptyDict]

\* References some collection or the index still holds.
Referenced(bk) ==
    {bk.bids[p] : p \in DOMAIN bk.bids}
        \cup {bk.asks[p] : p \in DOMAIN bk.asks}
        \cup {bk.order_entry_index[i] : i \in DOMAIN bk.order_entry_index}

\* Python frees an object nothing refers to.
Collect(bk) == [bk EXCEPT !.entries = [r \in Referenced(bk) |-> bk.entries[r]]]

NewRef(bk) == SetMin(EntryRefs \ DOMAIN bk.entries)

\* LimitOrder.volume: "derived volume" of one order.
OrderVolume(order) == order.quantity

RECURSIVE SumVolume(_, _)
SumVolume(orders, ids) ==
    IF ids = {} THEN 0
    ELSE LET i == CHOOSE x \in ids : TRUE
         IN OrderVolume(orders[i]) + SumVolume(orders, ids \ {i})

\* OrderBookEntry.volume
Volume(entry) == SumVolume(entry.orders, DOMAIN entry.orders)

\* OrderBookEntry.__init__
NewEntry(order) == [price |-> order.price, orders |-> Put(EmptyDict, order.id, order)]

-----------------------------------------------------------------------------
(* OrderBook *)

\* OrderBook._get_entries_list: the name of the side's collection
GetEntriesList(order) == IF order.action = "BUY" THEN "bids" ELSE "asks"

\* A faulty add_order: an order added again to its price level is counted
\* again instead of replacing the one held under its identifier.
AddOrderAccumulating(bk, order) ==
    LET side == GetEntriesList(order)
    IN  IF order.price \notin DOMAIN bk[side]
        THEN LET e == NewRef(bk)
             IN  Collect([bk EXCEPT
                     ![side] = Put(@, order.price, e),
                     !.entries = Put(@, e, NewEntry(order)),
                     !.order_entry_index = Put(@, order.id, e)])
        ELSE LET e == bk[side][order.price]
                 held == bk.entries[e].orders
                 counted == IF order.id \in DOMAIN held
                            THEN [order EXCEPT !.quantity = @ + held[order.id].quantity]
                            ELSE order
             IN  Collect([bk EXCEPT
                     !.entries[e].orders = Put(@, order.id, counted),
                     !.order_entry_index = Put(@, order.id, e)])

\* A faulty add_order: an order added to a price level that is there gets an
\* entry of its own, which takes the level's place.
AddOrderReplacingEntry(bk, order) ==
    LET side == GetEntriesList(order)
        e == NewRef(bk)
    IN  Collect([bk EXCEPT
            ![side] = Put(@, order.price, e),
            !.entries = Put(@, e, NewEntry(order)),
            !.order_entry_index = Put(@, order.id, e)])

\* OrderBook.add_order (the same in both drafts)
AddOrder(bk, order) ==
    LET side == GetEntriesList(order)
    IN  IF order.price \notin DOMAIN bk[side]
        THEN LET e == NewRef(bk)
             IN  Collect([bk EXCEPT
                     ![side] = Put(@, order.price, e),
                     !.entries = Put(@, e, NewEntry(order)),
                     !.order_entry_index = Put(@, order.id, e)])
        ELSE LET e == bk[side][order.price]
             IN  Collect([bk EXCEPT
                     !.entries[e].orders = Put(@, order.id, order),
                     !.order_entry_index = Put(@, order.id, e)])

\* OrderBook.remove_order of core/market.py, lines 227 to 233: the entry the
\* index names is there.  raised: the call ended in a KeyError
\* (del entries[entry.price] with no such key), and the statements after the
\* failing one did not run.
RemoveIndexed(bk, order_id) ==
    LET e == bk.order_entry_index[order_id]
        entry == bk.entries[e]
    IN  IF order_id \notin DOMAIN entry.orders
        THEN [book |-> Collect([bk EXCEPT !.order_entry_index = Del(@, order_id)]),
              raised |-> FALSE]
        ELSE LET order == entry.orders[order_id]
                 bk1 == [bk EXCEPT !.entries[e].orders = Del(@, order_id)]
                 side == GetEntriesList(order)
             IN  IF Volume(bk1.entries[e]) = 0
                 THEN IF entry.price \in DOMAIN bk1[side]
                      THEN [book |-> Collect([bk1 EXCEPT
                                       ![side] = Del(@, entry.price),
                                       !.order_entry_index = Del(@, order_id)]),
                            raised |-> FALSE]
                      ELSE [book |-> bk1, raised |-> TRUE]
                 ELSE [book |-> Collect([bk1 EXCEPT
                                  !.order_entry_index = Del(@, order_id)]),
                       raised |-> FALSE]

\* A faulty remove_order: no test for an identifier the index does not hold,
\* so that the lookup of the entry raises KeyError.
RemoveOrderCoreUnguarded(bk, order_id) ==
    IF order_id \notin DOMAIN bk.order_entry_index
    THEN [book |-> bk, raised |-> TRUE]
    ELSE RemoveIndexed(bk, order_id)

\* OrderBook.remove_order of core/market.py
RemoveOrderCore(bk, order_id) ==
    IF order_id \notin DOMAIN bk.order_entry_index
    THEN [book |-> bk, raised |-> FALSE]
    ELSE RemoveIndexed(bk, order_id)

\* OrderBook.remove_order of market.py.  raised: KeyError of
\* del entry._orders[order_id].
RemoveOrderOld(bk, order_id) ==
    IF order_id \notin DOMAIN bk.order_entry_index
    THEN [book |-> bk, raised |-> FALSE]
    ELSE LET e == bk.order_entry_index[order_id]
         IN  IF order_id \notin DOMAIN bk.entries[e].orders
             THEN [book |-> bk, raised |-> TRUE]
             ELSE [book |-> Collect([bk EXCEPT
                              !.entries[e].orders = Del(@, order_id),
                              !.order_entry_index = Del(@, order_id)]),
                   raised |-> FALSE]

RemoveOrder(bk, order_id) ==
    IF draft = "core" THEN RemoveOrderCore(bk, order_id) ELSE RemoveOrderOld(bk, order_id)

\* OrderBook.clear (core/market.py only)
Clear(bk) == EmptyBook


-----------------------------------------------------------------------------
(* Market: the accessors *)

\* SortedDict.peekitem(-1)[0]: the largest key
PeekLast(d) == SetMax(DOMAIN d)

\* SortedDict.peekitem(0)[0]: the smallest key
PeekFirst(d) == SetMin(DOMAIN d)

\* Market.bid_price of core/market.py
BidPriceCore(bk) == IF Cardinality(DOMAIN bk.bids) > 0 THEN PeekLast(bk.bids) ELSE 0

\* Market.bid_price of market.py
BidPriceOld(bk) == IF Cardinality(DOMAIN bk.bids) > 0 THEN PeekFirst(bk.bids) ELSE 0

BidPrice(bk) == IF draft = "core" THEN BidPriceCore(bk) ELSE BidPriceOld(bk)

\* Market.ask_price (the same in both drafts)
AskPrice(bk) == IF Cardinality(DOMAIN bk.asks) > 0 THEN PeekFirst(bk.asks) ELSE 0

\* Market.spread
Spread(bk) == AskPrice(bk) - BidPrice(bk)

\* iter(SortedDict): the keys in ascending order
RECURSIVE SortedKeys(_)
SortedKeys(S) ==
    IF S = {} THEN <<>> ELSE <<SetMin(S)>> \o SortedKeys(S \ {SetMin(S)})

\* OrderBookEntriesView.__iter__ over the collection the view wraps
ViewIter(d) == SortedKeys(DOMAIN d)

\* Market.bids: the view of the OrderBook's bids, iterated
BidsView(bk) == ViewIter(bk.bids)

\* Market.asks: the view of the OrderBook's asks, iterated
AsksView(bk) == ViewIter(bk.asks)

\* Market.__init__: the status a new Market has
InitialStatus(d) == IF d = "core" THEN "CLOSED" ELSE "ACTIVE"

\* The status on which get_ticker, place_order, get_order and cancel_order raise
GateStatus == IF draft = "core" THEN "CLOSED" ELSE "DISABLED"


-----------------------------------------------------------------------------
(* The events the feed producer raises *)

Order(id, action, price, quantity) ==
    [id |-> id, action |-> action, price |-> price, quantity |-> quantity]

\* Initial order lists of OrderBookInitEvent: none, a two-sided book, and a
\* price level that holds an order of quantity zero beside another
Snapshots ==
    { <<>>,
      <<Order("id1", "BUY", 10000, 1), Order("id2", "SELL", 10050, 1)>>,
      <<Order("id1", "BUY", 10000, 0), Order("id2", "BUY", 10000, 1)>> }

\* Orders of OrderBookItemAddedEvent
AddedOrders == [id : OrderIds, action : OrderActions, price : Prices, quantity : {1}]

OtherId(id) == IF id = "id1" THEN "id2" ELSE "id1"

InitEvents == [type : {"init"}, status : MarketStatuses, orders : Snapshots]

AddedEvents == [type : {"added"}, order : AddedOrders]

RemovedEvents == [type : {"removed"}, order_id : OrderIds]

StatusEvents == [type : {"status"}, status : MarketStatuses]

Trade(base_amount, maker_order_id) ==
    [type |-> "trade", base_amount |-> base_amount, counter_amount |-> 10050,
     maker_order_id |-> maker_order_id, taker_order_id |-> OtherId(maker_order_id)]

\* Trades of 1.00 for 100.50 against either order, and one of a zero base amount
TradeEvents == {Trade(100, m) : m \in OrderIds} \cup {Trade(0, "id1")}

\* What the producer raises when the Market's state is explored
FeedEvents == InitEvents \cup AddedEvents \cup RemovedEvents \cup StatusEvents \cup TradeEvents

\* What it raises when the dispatch to several subscribers is explored
DispatchEvents ==
    { [type |-> "init", status |-> IF draft = "core" THEN "OPEN" ELSE "ACTIVE",
       orders |-> <<Order("id1", "BUY", 10000, 1), Order("id2", "SELL", 10050, 1)>>],
      [type |-> "added", order |-> Order("id1", "BUY", 10050, 1)],
      [type |-> "removed", order_id |-> "id2"],
      Trade(100, "id1") }

\* What it raises when the commands are explored: the events that set the status
CommandEvents == [type : {"init"}, status : MarketStatuses, orders : {<<>>}] \cup StatusEvents

NoEvent == [type |-> "none"]

\* Amount division, counter_amount / base_amount, in hundredths
Divide(counter_amount, base_amount) == (counter_amount * 100) \div base_amount

-----------------------------------------------------------------------------
(* MarketFeed *)

Subscribers == {"manager", "other"}   \* the MarketManager and one more subscriber

Range(q) == {q[i] : i \in DOMAIN q}

\* The coroutine raise_event makes for one subscriber: the matching handler
\* for one subscriber.  phase and pc say how far it has run.
Task(sub, event, n) == [sub |-> sub, event |-> event, n |-> n, phase |-> "start", pc |-> 0]

\* A faulty dispatch: the new tasks run before the ones that already wait.
RaiseEventAtFront(q, event, n) ==
    [i \in 1 .. Len(subscribers) |-> Task(subscribers[i], event, n)] \o q

\* A faulty dispatch: only the first subscriber in the list gets its handler.
RaiseEventToFirst(q, event, n) ==
    IF subscribers = <<>> THEN q ELSE Append(q, Task(subscribers[1], event, n))

\* MarketFeed.raise_event: one task per subscriber, in the order of the list;
\* asyncio.create_task appends the task to the loop's FIFO of ready callbacks.
RaiseEvent(q, event, n) ==
    q \o [i \in 1 .. Len(subscribers) |-> Task(subscribers[i], event, n)]

\* list.remove: the first occurrence
RECURSIVE ListRemove(_, _)
ListRemove(l, x) ==
    IF l = <<>> THEN <<>>
    ELSE IF Head(l) = x THEN Tail(l)
    ELSE <<Head(l)>> \o ListRemove(Tail(l), x)


-----------------------------------------------------------------------------
(* History *)

\* What is remembered of the last operation on the Market's state
Remember(event, raised) ==
    [ev |-> event, prev_ev |-> hist.ev, book_before |-> book,
     status_before |-> status, price_before |-> current_price, raised |-> raised]

NoCommand == [op |-> "none"]

\* No second Market has been constructed
NoPeer == [constructed |-> FALSE]

\* The reader has read nothing yet
NotRead == [during |-> "none"]

\* asyncio.Lock(): nobody holds it, nobody waits for it
FreeLock == [holder |-> 0, waiters |-> <<>>]

\* The deliveries of publish number n that raise_event owes: one to each
\* subscriber in the list at the moment of the call
Registered(n) == {<<subscribers[i], n>> : i \in DOMAIN subscribers}

\* The handler at the head of the loop's FIFO begins: its delivery is made
Delivered == owed \ {<<Head(ready).sub, Head(ready).n>>}

-----------------------------------------------------------------------------
(* Initial state: a Market has been constructed on a new feed *)

Init ==
    /\ draft \in Drafts
    /\ book = EmptyBook
    /\ status = InitialStatus(draft)
    /\ current_price = 0
    /\ subscribers = IF draft = "old" THEN <<"manager">> ELSE <<>>
    /\ ready = <<>>
    /\ suspended = {}
    /\ npublished = 0
    /\ client_calls = 0
    /\ last_cmd = NoCommand
    /\ hist = [ev |-> NoEvent, prev_ev |-> NoEvent, book_before |-> EmptyBook,
               status_before |-> InitialStatus(draft), price_before |-> 0,
               raised |-> FALSE]
    /\ synced = FALSE
    /\ started = [s \in Subscribers |-> 0]
    /\ owed = {}
    /\ peer = NoPeer
    /\ seen = NotRead
    /\ market_info = EmptyDict
    /\ market_info_lock = FreeLock
    /\ info_calls = <<>>

-----------------------------------------------------------------------------
(* MarketFeed: subscribe, unsubscribe, and the producer's raise_event *)

Subscribe(sub) ==
    /\ sub \notin Range(subscribers)
    /\ subscribers' = Append(subscribers, sub)
    /\ UNCHANGED <<draft, market_info, market_info_lock, info_calls, peer, seen, owed, book, status, current_price, ready, suspended, npublished,
                   client_calls, last_cmd, hist, synced, started>>

\* A faulty unsubscribe: it also drops the handler tasks already created for
\* the subscriber.
UnsubscribeCancelling(sub) ==
    /\ sub \in Range(subscribers)
    /\ subscribers' = ListRemove(subscribers, sub)
    /\ ready' = SelectSeq(ready, LAMBDA t : t.sub # sub)
    /\ owed' = {d \in owed : d[1] # sub}
    /\ UNCHANGED <<draft, market_info, market_info_lock, info_calls, peer, seen, book, status, current_price, suspended, npublished,
                   client_calls, last_cmd, hist, synced, started>>

Unsubscribe(sub) ==
    /\ sub \in Range(subscribers)
    /\ subscribers' = ListRemove(subscribers, sub)
    /\ UNCHANGED <<draft, market_info, market_info_lock, info_calls, peer, seen, owed, book, status, current_price, ready, suspended, npublished,
                   client_calls, last_cmd, hist, synced, started>>

Publish(event, limit) ==
    /\ npublished < limit
    /\ ready' = RaiseEvent(ready, event, npublished + 1)
    /\ owed' = owed \cup Registered(npublished + 1)
    /\ npublished' = npublished + 1
    /\ UNCHANGED <<draft, market_info, market_info_lock, info_calls, peer, seen, book, status, current_price, subscribers, suspended,
                   client_calls, last_cmd, hist, synced, started>>

-----------------------------------------------------------------------------
(* MarketManager: the loop runs the task at the head of its FIFO.  No       *)
(* handler of the manager awaits, so each runs to its end in one step.     *)

\* A faulty loop: the dispatch waits for a handler that has begun to end
\* before it lets the next one begin.
ManagerRunsAfterAwaited(type) ==
    /\ suspended = {}
    /\ ready # <<>>
    /\ Head(ready).sub = "manager"
    /\ Head(ready).event.type = type

ManagerRuns(type) ==
    /\ ready # <<>>
    /\ Head(ready).sub = "manager"
    /\ Head(ready).event.type = type

RECURSIVE AddAll(_, _)
AddAll(bk, orders) ==
    IF orders = <<>> THEN bk ELSE AddAll(AddOrder(bk, Head(orders)), Tail(orders))

\* MarketManager.on_order_book_init: the book the handler leaves
InitBook(bk, event) == AddAll(bk, event.orders)

OnOrderBookInit ==
    /\ ManagerRuns("init")
    /\ LET event == Head(ready).event
       IN  /\ status' = event.status
           /\ book' = InitBook(book, event)
           /\ hist' = Remember(event, FALSE)
    /\ synced' = TRUE
    /\ started' = [started EXCEPT !["manager"] = Head(ready).n]
    /\ owed' = Delivered
    /\ ready' = Tail(ready)
    /\ UNCHANGED <<draft, market_info, market_info_lock, info_calls, peer, seen, current_price, subscribers, suspended, npublished,
                   client_calls, last_cmd>>

OnOrderBookItemAdded ==
    /\ ManagerRuns("added")
    /\ LET event == Head(ready).event
       IN  /\ book' = AddOrder(book, event.order)
           /\ hist' = Remember(event, FALSE)
    /\ started' = [started EXCEPT !["manager"] = Head(ready).n]
    /\ owed' = Delivered
    /\ ready' = Tail(ready)
    /\ UNCHANGED <<draft, market_info, market_info_lock, info_calls, peer, seen, status, current_price, subscribers, suspended, npublished,
                   client_calls, last_cmd, synced>>

OnOrderBookItemRemoved ==
    /\ ManagerRuns("removed")
    /\ LET event == Head(ready).event
           r == RemoveOrder(book, event.order_id)
       IN  /\ book' = r.book
           /\ hist' = Remember(event, r.raised)
    /\ started' = [started EXCEPT !["manager"] = Head(ready).n]
    /\ owed' = Delivered
    /\ ready' = Tail(ready)
    /\ UNCHANGED <<draft, market_info, market_info_lock, info_calls, peer, seen, status, current_price, subscribers, suspended, npublished,
                   client_calls, last_cmd, synced>>

\* A faulty on_market_status_update: it takes the status change for a resync
\* and empties the book and the price.
OnMarketStatusUpdateResetting ==
    /\ ManagerRuns("status")
    /\ LET event == Head(ready).event
       IN  /\ status' = event.status
           /\ hist' = Remember(event, FALSE)
    /\ book' = EmptyBook
    /\ current_price' = 0
    /\ started' = [started EXCEPT !["manager"] = Head(ready).n]
    /\ owed' = Delivered
    /\ ready' = Tail(ready)
    /\ UNCHANGED <<draft, market_info, market_info_lock, info_calls, peer, seen, subscribers, suspended, npublished,
                   client_calls, last_cmd, synced>>

OnMarketStatusUpdate ==
    /\ ManagerRuns("status")
    /\ LET event == Head(ready).event
       IN  /\ status' = event.status
           /\ hist' = Remember(event, FALSE)
    /\ started' = [started EXCEPT !["manager"] = Head(ready).n]
    /\ owed' = Delivered
    /\ ready' = Tail(ready)
    /\ UNCHANGED <<draft, market_info, market_info_lock, info_calls, peer, seen, book, current_price, subscribers, suspended, npublished,
                   client_calls, last_cmd, synced>>

\* The Ticker on_trade builds from the Market
MakeTicker(price, bk, st) ==
    [type |-> "ticker",
     ticker |-> [current_price |-> price, bid_price |-> BidPrice(bk),
                 ask_price |-> AskPrice(bk), status |-> st]]

\* A faulty on_trade: its exception ends the manager's dispatch, and the
\* handlers that wait for the manager never run.
OnTradeStopping ==
    /\ ManagerRuns("trade")
    /\ LET event == Head(ready).event
       IN  IF event.base_amount = 0
           THEN /\ hist' = Remember(event, TRUE)
                /\ ready' = SelectSeq(Tail(ready), LAMBDA t : t.sub # "manager")
                /\ owed' = Delivered
                /\ UNCHANGED <<book, current_price, npublished>>
           ELSE LET price == Divide(event.counter_amount, event.base_amount)
                    r == RemoveOrder(book, event.maker_order_id)
                IN  /\ current_price' = price
                    /\ book' = r.book
                    /\ hist' = Remember(event, r.raised)
                    /\ IF r.raised
                       THEN /\ ready' = SelectSeq(Tail(ready), LAMBDA t : t.sub # "manager")
                            /\ owed' = Delivered
                            /\ UNCHANGED npublished
                       ELSE /\ ready' = RaiseEvent(Tail(ready),
                                            MakeTicker(price, r.book, status),
                                            npublished + 1)
                            /\ owed' = Delivered \cup Registered(npublished + 1)
                            /\ npublished' = npublished + 1
    /\ started' = [started EXCEPT !["manager"] = Head(ready).n]
    /\ UNCHANGED <<draft, market_info, market_info_lock, info_calls, peer, seen, status, subscribers, suspended, client_calls, last_cmd, synced>>

\* MarketManager.on_trade.  A zero base_amount raises in the division, before
\* anything is assigned; a remove_order that raises ends the handler before
\* it raises the ticker.
OnTrade ==
    /\ ManagerRuns("trade")
    /\ LET event == Head(ready).event
       IN  IF event.base_amount = 0
           THEN /\ hist' = Remember(event, TRUE)
                /\ ready' = Tail(ready)
                /\ owed' = Delivered
                /\ UNCHANGED <<book, current_price, npublished>>
           ELSE LET price == Divide(event.counter_amount, event.base_amount)
                    r == RemoveOrder(book, event.maker_order_id)
                IN  /\ current_price' = price
                    /\ book' = r.book
                    /\ hist' = Remember(event, r.raised)
                    /\ IF r.raised
                       THEN /\ ready' = Tail(ready)
                            /\ owed' = Delivered
                            /\ UNCHANGED npublished
                       ELSE /\ ready' = RaiseEvent(Tail(ready),
                                            MakeTicker(price, r.book, status),
                                            npublished + 1)
                            /\ owed' = Delivered \cup Registered(npublished + 1)
                            /\ npublished' = npublished + 1
    /\ started' = [started EXCEPT !["manager"] = Head(ready).n]
    /\ UNCHANGED <<draft, market_info, market_info_lock, info_calls, peer, seen, status, subscribers, suspended, client_calls, last_cmd, synced>>

\* MarketFeedSubscriber.on_ticker, which the manager does not override
OnTicker ==
    /\ ManagerRuns("ticker")
    /\ started' = [started EXCEPT !["manager"] = Head(ready).n]
    /\ owed' = Delivered
    /\ ready' = Tail(ready)
    /\ UNCHANGED <<draft, market_info, market_info_lock, info_calls, peer, seen, book, status, current_price, subscribers, suspended, npublished,
                   client_calls, last_cmd, hist, synced>>

-----------------------------------------------------------------------------
(* Another subscriber, whose handlers may await.  A handler that awaits    *)
(* leaves the loop's FIFO until what it waits for is done, and is then     *)
(* appended to it again.                                                   *)

HandlerRunsThrough ==
    /\ ready # <<>>
    /\ Head(ready).sub = "other"
    /\ Head(ready).phase = "start"
    /\ started' = [started EXCEPT !["other"] = Head(ready).n]
    /\ owed' = Delivered
    /\ ready' = Tail(ready)
    /\ UNCHANGED <<draft, market_info, market_info_lock, info_calls, peer, seen, book, status, current_price, subscribers, suspended, npublished,
                   client_calls, last_cmd, hist, synced>>

HandlerAwaits ==
    /\ ready # <<>>
    /\ Head(ready).sub = "other"
    /\ Head(ready).phase = "start"
    /\ started' = [started EXCEPT !["other"] = Head(ready).n]
    /\ owed' = Delivered
    /\ suspended' = suspended \cup {Head(ready)}
    /\ ready' = Tail(ready)
    /\ UNCHANGED <<draft, market_info, market_info_lock, info_calls, peer, seen, book, status, current_price, subscribers, npublished,
                   client_calls, last_cmd, hist, synced>>

Wake ==
    \E t \in suspended :
        /\ suspended' = suspended \ {t}
        /\ ready' = Append(ready, [t EXCEPT !.phase = "resume"])
        /\ UNCHANGED <<draft, market_info, market_info_lock, info_calls, peer, seen, owed, book, status, current_price, subscribers, npublished,
                       client_calls, last_cmd, hist, synced, started>>

HandlerEnds ==
    /\ ready # <<>>
    /\ Head(ready).sub = "other"
    /\ Head(ready).phase = "resume"
    /\ ready' = Tail(ready)
    /\ UNCHANGED <<draft, market_info, market_info_lock, info_calls, peer, seen, owed, book, status, current_price, subscribers, suspended, npublished,
                   client_calls, last_cmd, hist, synced, started>>

-----------------------------------------------------------------------------
(* Market: the commands, and a call of OrderBook.clear *)

Commands ==
    IF draft = "core"
    THEN {"get_ticker", "place_order", "get_order", "cancel_order"}
    ELSE {"get_tickers", "get_ticker", "place_order", "get_order", "cancel_order"}

\* A faulty gate: the commands test for DISABLED where the status is CLOSED.
CommandResultWrongGate(st) == IF st = "DISABLED" THEN "MarketClosed" ELSE "delegated"

\* Market.get_ticker, place_order, get_order, cancel_order (and get_tickers):
\* each raises MarketException on the gate status and else awaits the client.
CommandResult(st) == IF st = GateStatus THEN "MarketClosed" ELSE "delegated"

Command(op) ==
    /\ CommandResult(status) = "delegated" => client_calls < MaxCalls
    /\ last_cmd' = [op |-> op, status |-> status, result |-> CommandResult(status),
                    calls_before |-> client_calls]
    /\ client_calls' = IF CommandResult(status) = "delegated"
                       THEN client_calls + 1 ELSE client_calls
    /\ UNCHANGED <<draft, market_info, market_info_lock, info_calls, peer, seen, owed, book, status, current_price, subscribers, ready, suspended,
                   npublished, hist, synced, started>>

OrderBookClear ==
    /\ draft = "core"
    /\ book # EmptyBook
    /\ book' = Clear(book)
    /\ hist' = Remember([type |-> "clear"], FALSE)
    /\ UNCHANGED <<draft, market_info, market_info_lock, info_calls, peer, seen, owed, status, current_price, subscribers, ready, suspended, npublished,
                   client_calls, last_cmd, synced, started>>

-----------------------------------------------------------------------------

\* The Market's state: the manager is the only subscriber
Next ==
    \/ Subscribe("manager")
    \/ \E event \in FeedEvents : Publish(event, MaxEvents)
    \/ OnOrderBookInit
    \/ OnOrderBookItemAdded
    \/ OnOrderBookItemRemoved
    \/ OnMarketStatusUpdate
    \/ OnTrade
    \/ OnTicker
    \/ OrderBookClear

Spec == Init /\ [][Next]_vars

\* The dispatch: the manager stays subscribed once it is; another subscriber
\* comes and goes, and awaits in its handlers
NextFeed ==
    \/ \E sub \in Subscribers : Subscribe(sub)
    \/ Unsubscribe("other")
    \/ \E event \in DispatchEvents : Publish(event, MaxDispatched)
    \/ OnOrderBookInit
    \/ OnOrderBookItemAdded
    \/ OnOrderBookItemRemoved
    \/ OnTrade
    \/ OnTicker
    \/ HandlerRunsThrough
    \/ HandlerAwaits
    \/ Wake
    \/ HandlerEnds

SpecFeed == Init /\ [][NextFeed]_vars

\* The event loop runs a task that is ready: the manager's handlers, the
\* beginning of another subscriber's handler, and the rest of one that has
\* been woken.  Nothing makes what a handler awaits ever complete.
LoopIsFair ==
    /\ WF_vars(OnOrderBookInit)
    /\ WF_vars(OnOrderBookItemAdded)
    /\ WF_vars(OnOrderBookItemRemoved)
    /\ WF_vars(OnMarketStatusUpdate)
    /\ WF_vars(OnTrade)
    /\ WF_vars(OnTicker)
    /\ WF_vars(HandlerRunsThrough \/ HandlerAwaits)
    /\ WF_vars(HandlerEnds)

\* Events whose handlers fail: a Trade with a zero base_amount, and in
\* core/market.py the removal of an order whose price level has gone
FailingEvents ==
    { [type |-> "init", status |-> IF draft = "core" THEN "OPEN" ELSE "ACTIVE",
       orders |-> <<Order("id1", "BUY", 10000, 0), Order("id2", "BUY", 10000, 1)>>],
      Trade(100, "id2"),
      Trade(100, "id1"),
      Trade(0, "id1"),
      [type |-> "removed", order_id |-> "id1"] }

NextFailing ==
    \/ Subscribe("manager")
    \/ \E event \in FailingEvents : Publish(event, MaxFailing)
    \/ OnOrderBookInit
    \/ OnOrderBookItemRemoved
    \/ OnTrade
    \/ OnTicker

SpecFailing == Init /\ [][NextFailing]_vars /\ LoopIsFair

\* Events for the deliveries under a fair loop
DeliveredEvents ==
    { [type |-> "added", order |-> Order("id1", "BUY", 10050, 1)],
      Trade(100, "id1") }

NextDelivery ==
    \/ \E sub \in Subscribers : Subscribe(sub)
    \/ Unsubscribe("other")
    \/ \E event \in DeliveredEvents : Publish(event, MaxDelivered)
    \/ OnOrderBookItemAdded
    \/ OnTrade
    \/ OnTicker
    \/ HandlerRunsThrough
    \/ HandlerAwaits
    \/ Wake
    \/ HandlerEnds

SpecDelivery == Init /\ [][NextDelivery]_vars /\ LoopIsFair

\* The commands, with the events that set the status
NextCommands ==
    \/ Subscribe("manager")
    \/ \E event \in CommandEvents : Publish(event, MaxEvents)
    \/ OnOrderBookInit
    \/ OnMarketStatusUpdate
    \/ \E op \in Commands : Command(op)

SpecCommands == Init /\ [][NextCommands]_vars


-----------------------------------------------------------------------------
(* Two Markets.  bids, asks and order_entry_index are attributes of the     *)
(* class OrderBook, and subscribers one of the class MarketFeed: no        *)
(* __init__ and no method binds them on an instance, and add_order,        *)
(* remove_order, clear, subscribe and unsubscribe change the objects in    *)
(* place.  self.bids of every OrderBook is therefore the one object book   *)
(* stands for, and self.subscribers of every feed the one list.  _status   *)
(* and _current_price are bound on the instance by Market.__init__.        *)

\* The MarketManager of the second Market
PeerManager == "manager2"

\* Market.__init__ for a second Market on a feed instance of its own; the
\* Market of market.py subscribes its manager there
ConstructPeer ==
    /\ ~peer.constructed
    /\ peer' = [constructed |-> TRUE, status |-> InitialStatus(draft), current_price |-> 0,
                raised_on |-> {}, handled |-> 0]
    /\ subscribers' = IF draft = "old" THEN Append(subscribers, PeerManager) ELSE subscribers
    /\ UNCHANGED <<draft, market_info, market_info_lock, info_calls, seen, owed, book, status, current_price, ready, suspended,
                   npublished, client_calls, last_cmd, hist, synced, started>>

\* subscribe_to_feed on the second Market, for its manager
SubscribePeer ==
    /\ peer.constructed
    /\ PeerManager \notin Range(subscribers)
    /\ subscribers' = Append(subscribers, PeerManager)
    /\ UNCHANGED <<draft, market_info, market_info_lock, info_calls, peer, seen, owed, book, status, current_price, ready, suspended,
                   npublished, client_calls, last_cmd, hist, synced, started>>

\* raise_event on the second Market's feed instance
PublishPeer(event, limit) ==
    /\ peer.constructed
    /\ npublished < limit
    /\ ready' = RaiseEvent(ready, event, npublished + 1)
    /\ owed' = owed \cup Registered(npublished + 1)
    /\ npublished' = npublished + 1
    /\ peer' = [peer EXCEPT !.raised_on = @ \cup {npublished + 1}]
    /\ UNCHANGED <<draft, market_info, market_info_lock, info_calls, seen, book, status, current_price, subscribers, suspended,
                   client_calls, last_cmd, hist, synced, started>>

PeerManagerRuns(type) ==
    /\ ready # <<>>
    /\ Head(ready).sub = PeerManager
    /\ Head(ready).event.type = type

\* MarketManager.on_order_book_init of the second Market's manager
PeerOnOrderBookInit ==
    /\ PeerManagerRuns("init")
    /\ LET event == Head(ready).event
       IN  /\ peer' = [peer EXCEPT !.status = event.status, !.handled = Head(ready).n]
           /\ book' = InitBook(book, event)
    /\ owed' = Delivered
    /\ ready' = Tail(ready)
    /\ UNCHANGED <<draft, market_info, market_info_lock, info_calls, seen, status, current_price, subscribers, suspended, npublished,
                   client_calls, last_cmd, hist, synced, started>>

\* MarketManager.on_order_book_item_added of the second Market's manager
PeerOnOrderBookItemAdded ==
    /\ PeerManagerRuns("added")
    /\ book' = AddOrder(book, Head(ready).event.order)
    /\ peer' = [peer EXCEPT !.handled = Head(ready).n]
    /\ owed' = Delivered
    /\ ready' = Tail(ready)
    /\ UNCHANGED <<draft, market_info, market_info_lock, info_calls, seen, status, current_price, subscribers, suspended, npublished,
                   client_calls, last_cmd, hist, synced, started>>

\* MarketManager.on_order_book_item_removed of the second Market's manager
PeerOnOrderBookItemRemoved ==
    /\ PeerManagerRuns("removed")
    /\ book' = RemoveOrder(book, Head(ready).event.order_id).book
    /\ peer' = [peer EXCEPT !.handled = Head(ready).n]
    /\ owed' = Delivered
    /\ ready' = Tail(ready)
    /\ UNCHANGED <<draft, market_info, market_info_lock, info_calls, seen, status, current_price, subscribers, suspended, npublished,
                   client_calls, last_cmd, hist, synced, started>>

\* What the feeds of the two Markets raise
SharedEvents ==
    { [type |-> "init", status |-> IF draft = "core" THEN "OPEN" ELSE "DISABLED",
       orders |-> <<Order("id1", "BUY", 10000, 1), Order("id2", "SELL", 10050, 1)>>],
      [type |-> "added", order |-> Order("id1", "BUY", 10050, 1)],
      [type |-> "removed", order_id |-> "id2"] }

NextInstances ==
    \/ Subscribe("manager")
    \/ ConstructPeer
    \/ SubscribePeer
    \/ \E event \in SharedEvents : Publish(event, MaxShared)
    \/ \E event \in SharedEvents : PublishPeer(event, MaxShared)
    \/ OnOrderBookInit
    \/ OnOrderBookItemAdded
    \/ OnOrderBookItemRemoved
    \/ PeerOnOrderBookInit
    \/ PeerOnOrderBookItemAdded
    \/ PeerOnOrderBookItemRemoved
    \/ OrderBookClear

SpecInstances == Init /\ [][NextInstances]_vars

-----------------------------------------------------------------------------
(* The manager's handlers statement by statement, beside a task that reads *)
(* the Market.  The loop runs one task at a time and changes task only     *)
(* where the running one awaits or returns; on_order_book_init and         *)
(* on_trade contain no await (raise_event is a plain call).                *)

\* The manager's handler at the head of the FIFO has run pc statements
Running(type, pc) ==
    /\ ManagerRuns(type)
    /\ Head(ready).phase = "running"
    /\ Head(ready).pc = pc

\* The running handler goes on to its next statement
Advance(q, pc) == <<[Head(q) EXCEPT !.phase = "running", !.pc = pc]>> \o Tail(q)

\* A faulty loop: it lets another task run between two statements of a handler.
LoopIdleBetweenStatements == TRUE

\* No task is running: the loop is between two callbacks
LoopIdle == IF ready = <<>> THEN TRUE ELSE Head(ready).phase # "running"

\* on_order_book_init, line 326: self.market._status = event.status
InitSetsStatus ==
    /\ ManagerRuns("init")
    /\ Head(ready).phase = "start"
    /\ status' = Head(ready).event.status
    /\ hist' = Remember(Head(ready).event, FALSE)
    /\ started' = [started EXCEPT !["manager"] = Head(ready).n]
    /\ owed' = Delivered
    /\ ready' = Advance(ready, 0)
    /\ UNCHANGED <<draft, market_info, market_info_lock, info_calls, peer, seen, book, current_price, subscribers, suspended,
                   npublished, client_calls, last_cmd, synced>>

\* on_order_book_init, lines 327-328: one turn of the loop over event.orders
InitAddsOrder ==
    /\ ManagerRuns("init")
    /\ \E pc \in 0 .. (Len(Head(ready).event.orders) - 1) :
           /\ Running("init", pc)
           /\ book' = AddOrder(book, Head(ready).event.orders[pc + 1])
           /\ ready' = Advance(ready, pc + 1)
    /\ UNCHANGED <<draft, market_info, market_info_lock, info_calls, peer, seen, owed, status, current_price, subscribers, suspended,
                   npublished, client_calls, last_cmd, hist, synced, started>>

\* on_order_book_init returns
InitReturns ==
    /\ ManagerRuns("init")
    /\ Running("init", Len(Head(ready).event.orders))
    /\ synced' = TRUE
    /\ ready' = Tail(ready)
    /\ UNCHANGED <<draft, market_info, market_info_lock, info_calls, peer, seen, owed, book, status, current_price, subscribers,
                   suspended, npublished, client_calls, last_cmd, hist, started>>

\* on_trade, line 340: the division and the assignment of _current_price
TradeSetsPrice ==
    /\ ManagerRuns("trade")
    /\ Head(ready).phase = "start"
    /\ LET event == Head(ready).event
       IN  IF event.base_amount = 0
           THEN /\ hist' = Remember(event, TRUE)
                /\ ready' = Tail(ready)
                /\ UNCHANGED current_price
           ELSE /\ hist' = Remember(event, FALSE)
                /\ current_price' = Divide(event.counter_amount, event.base_amount)
                /\ ready' = Advance(ready, 1)
    /\ started' = [started EXCEPT !["manager"] = Head(ready).n]
    /\ owed' = Delivered
    /\ UNCHANGED <<draft, market_info, market_info_lock, info_calls, peer, seen, book, status, subscribers, suspended, npublished,
                   client_calls, last_cmd, synced>>

\* on_trade, line 341: remove_order(event.maker_order_id)
TradeRemovesOrder ==
    /\ Running("trade", 1)
    /\ LET r == RemoveOrder(book, Head(ready).event.maker_order_id)
       IN  /\ book' = r.book
           /\ hist' = [hist EXCEPT !.raised = r.raised]
           /\ ready' = IF r.raised THEN Tail(ready) ELSE Advance(ready, 2)
    /\ UNCHANGED <<draft, market_info, market_info_lock, info_calls, peer, seen, owed, status, current_price, subscribers, suspended,
                   npublished, client_calls, last_cmd, synced, started>>

\* on_trade, lines 342-352: raise_event(TickerEvent(...)), and the return
TradeRaisesTicker ==
    /\ Running("trade", 2)
    /\ ready' = RaiseEvent(Tail(ready), MakeTicker(current_price, book, status),
                           npublished + 1)
    /\ owed' = owed \cup Registered(npublished + 1)
    /\ npublished' = npublished + 1
    /\ UNCHANGED <<draft, market_info, market_info_lock, info_calls, peer, seen, book, status, current_price, subscribers, suspended,
                   client_calls, last_cmd, hist, synced, started>>

\* What a task sees that reads status, bid_price, ask_price and spread; during
\* names the handler that has begun and not returned
View ==
    [status |-> status, bid_price |-> BidPrice(book), ask_price |-> AskPrice(book),
     spread |-> Spread(book),
     during |-> IF ready # <<>> /\ Head(ready).phase = "running"
                THEN Head(ready).event.type ELSE "none"]

\* Another task of the loop reads the Market
Read ==
    /\ LoopIdle
    /\ seen' = View
    /\ UNCHANGED <<draft, market_info, market_info_lock, info_calls, peer, owed, book, status, current_price, subscribers, ready,
                   suspended, npublished, client_calls, last_cmd, hist, synced, started>>

\* What the producer raises beside the reader
ReadEvents == DispatchEvents \cup {Trade(0, "id1")}

NextRead ==
    \/ Subscribe("manager")
    \/ \E event \in ReadEvents : Publish(event, MaxRead)
    \/ InitSetsStatus
    \/ InitAddsOrder
    \/ InitReturns
    \/ OnOrderBookItemAdded
    \/ OnOrderBookItemRemoved
    \/ TradeSetsPrice
    \/ TradeRemovesOrder
    \/ TradeRaisesTicker
    \/ OnTicker
    \/ Read

SpecRead == Init /\ [][NextRead]_vars

-----------------------------------------------------------------------------
(* ValrClient.get_market_info.  The cache and the lock are class            *)
(* attributes, shared by the clients of all markets.  A call is at          *)
(* "waiting" (for the lock), at "status" or "pairs" (holding the lock,      *)
(* before that request), or "done".                                         *)

Symbols == {"BTCZAR", "ETHZAR"}

\* The outcomes of GET public/status
StatusResponses == {"online", "offline", "error"}

\* The outcomes of GET public/pairs: an error, or the pairs the exchange lists
PairsResponses ==
    { [error |-> TRUE, symbols |-> {}],
      [error |-> FALSE, symbols |-> Symbols],
      [error |-> FALSE, symbols |-> {"BTCZAR"}] }

\* The market variables, which the client leaves alone
marketVars ==
    <<draft, book, status, current_price, subscribers, ready, suspended, npublished,
      client_calls, last_cmd, hist, synced, started, owed, peer, seen>>

\* A faulty lock, which lets every caller in
LockIgnored(lock) == FALSE

\* asyncio.Lock.locked(), with the waiters a release has yet to wake
Locked(lock) == lock.holder # 0

\* asyncio.Lock.release(): the first waiter is woken and gets the lock
Release(lock) ==
    IF lock.waiters = <<>>
    THEN FreeLock
    ELSE [holder |-> Head(lock.waiters), waiters |-> Tail(lock.waiters)]

NewCall(symbol, use_cached) ==
    [symbol |-> symbol, use_cached |-> use_cached, pc |-> "waiting", waited |-> FALSE,
     missed |-> FALSE, requests |-> 0, status |-> "CLOSED", outcome |-> "none",
     info |-> "none"]

\* The call has the lock: the test of use_cached and of the cache.  A call
\* that finds its symbol cached leaves the lock and returns the cached info.
Entered(call) ==
    IF ~call.use_cached \/ call.symbol \notin DOMAIN market_info
    THEN [call EXCEPT !.pc = "status", !.missed = call.symbol \notin DOMAIN market_info]
    ELSE [call EXCEPT !.pc = "done", !.outcome = "returned",
                      !.info = market_info[call.symbol]]

\* The lock after the call c, which holds it, has made the test
AfterEntry(lock, call) == IF call.pc = "done" THEN Release(lock) ELSE lock

\* A client calls get_market_info.  With the lock free the call takes it and
\* goes on without yielding; otherwise it joins the waiters.
GetMarketInfo(symbol, use_cached) ==
    /\ Len(info_calls) < MaxInfoCalls
    /\ LET c == Len(info_calls) + 1
           call == NewCall(symbol, use_cached)
       IN  IF Locked(market_info_lock)
           THEN /\ market_info_lock' =
                       [market_info_lock EXCEPT !.waiters = Append(@, c)]
                /\ info_calls' = Append(info_calls, [call EXCEPT !.waited = TRUE])
           ELSE /\ market_info_lock' =
                       AfterEntry([market_info_lock EXCEPT !.holder = c], Entered(call))
                /\ info_calls' = Append(info_calls, Entered(call))
    /\ UNCHANGED market_info
    /\ UNCHANGED marketVars

\* A waiter that release has given the lock to goes on
Acquired(c) ==
    /\ c \in DOMAIN info_calls
    /\ info_calls[c].pc = "waiting"
    /\ market_info_lock.holder = c
    /\ info_calls' = [info_calls EXCEPT ![c] = Entered(@)]
    /\ market_info_lock' = AfterEntry(market_info_lock, Entered(info_calls[c]))
    /\ UNCHANGED market_info
    /\ UNCHANGED marketVars

\* GET public/status.  An error response raises MarketException, which
\* leaves the lock.
FetchStatus(c, rsp) ==
    /\ c \in DOMAIN info_calls
    /\ info_calls[c].pc = "status"
    /\ IF rsp = "error"
       THEN /\ info_calls' = [info_calls EXCEPT ![c].pc = "done",
                                                ![c].requests = @ + 1,
                                                ![c].outcome = "raised"]
            /\ market_info_lock' = Release(market_info_lock)
       ELSE /\ info_calls' = [info_calls EXCEPT
                                 ![c].pc = "pairs",
                                 ![c].requests = @ + 1,
                                 ![c].status = IF rsp = "online" THEN "OPEN" ELSE "CLOSED"]
            /\ UNCHANGED market_info_lock
    /\ UNCHANGED market_info
    /\ UNCHANGED marketVars

\* The cache after the pairs of a response are stored with the status
Stored(cache, symbols, st) ==
    [s \in DOMAIN cache \cup symbols |-> IF s \in symbols THEN st ELSE cache[s]]

\* GET public/pairs, the filling of the cache, the release of the lock and
\* the return of market_info[symbol], which raises KeyError for a symbol
\* that is not among the pairs.
FetchPairs(c, rsp) ==
    /\ c \in DOMAIN info_calls
    /\ info_calls[c].pc = "pairs"
    /\ LET call == info_calls[c]
           cache == IF rsp.error THEN market_info
                    ELSE Stored(market_info, rsp.symbols, call.status)
       IN  /\ market_info' = cache
           /\ info_calls' =
                  [info_calls EXCEPT
                     ![c].pc = "done",
                     ![c].requests = @ + 1,
                     ![c].outcome = IF ~rsp.error /\ call.symbol \in DOMAIN cache
                                    THEN "returned" ELSE "raised",
                     ![c].info = IF ~rsp.error /\ call.symbol \in DOMAIN cache
                                 THEN cache[call.symbol] ELSE "none"]
    /\ market_info_lock' = Release(market_info_lock)
    /\ UNCHANGED marketVars

NextInfo ==
    \/ \E symbol \in Symbols : \E use_cached \in BOOLEAN : GetMarketInfo(symbol, use_cached)
    \/ \E c \in 1..MaxInfoCalls : Acquired(c)
    \/ \E c \in 1..MaxInfoCalls : \E rsp \in StatusResponses : FetchStatus(c, rsp)
    \/ \E c \in 1..MaxInfoCalls : \E rsp \in PairsResponses : FetchPairs(c, rsp)

SpecInfo == Init /\ [][NextInfo]_vars

-----------------------------------------------------------------------------
(* Properties *)

\* The entry objects a side's collection holds
Attached(bk) == {bk.bids[p] : p \in DOMAIN bk.bids} \cup {bk.asks[p] : p \in DOMAIN bk.asks}

\* The manager has handled an event of this type as its last operation
Handled(type) == hist.ev.type = type

\* C1: every order identifier in the reverse index maps to an entry that still
\* contains the identifier and is still present in its side's collection, and
\* no entry present in bids or asks holds zero orders.
C1_IndexAndEntriesConsistent ==
    /\ \A i \in DOMAIN book.order_entry_index :
           /\ i \in DOMAIN book.entries[book.order_entry_index[i]].orders
           /\ book.order_entry_index[i] \in Attached(book)
    /\ \A e \in Attached(book) : DOMAIN book.entries[e].orders # {}


\* C2: while Market.status is CLOSED, a command fails with the market-closed
\* error and the client records no invocation for it.
C2_ClosedCommandsFail ==
    (last_cmd.op # "none" /\ last_cmd.status = "CLOSED")
        => /\ last_cmd.result = "MarketClosed"
           /\ client_calls = last_cmd.calls_before

\* A command was refused in the initial state, before any feed event.
C2_Witness ==
    /\ last_cmd.op = "place_order"
    /\ last_cmd.status = "CLOSED"
    /\ last_cmd.result = "MarketClosed"
    /\ npublished = 0

\* A command was refused after the client had served one: the market was open
\* and is closed again.
C2_WitnessReclosed ==
    /\ last_cmd.op # "none"
    /\ last_cmd.status = "CLOSED"
    /\ last_cmd.calls_before > 0

\* C3: Market.status is CLOSED in every state until the first OrderBookInit
\* event has been applied.
C3_ClosedUntilInit == ~synced => status = "CLOSED"

\* C4: for one subscriber, the handlers start in the order in which their
\* events were published: a handler never starts after one for a later event.
C4_StartsInPublishOrder == [][\A s \in Subscribers : started'[s] >= started[s]]_vars

\* The subscriber's handler for the first event has started and waits, and
\* its handler for a later event has started.
C4_Witness ==
    /\ \E t \in suspended : t.sub = "other" /\ t.n = 1
    /\ started["other"] > 1

\* Handlers of a subscriber that have started and not ended
InProgress(s) ==
    {t \in suspended : t.sub = s}
        \cup {ready[i] : i \in {j \in DOMAIN ready : ready[j].sub = s /\ ready[j].phase = "resume"}}

\* C5: two handlers of the same subscriber are never in progress at the same
\* time: a handler has run to its end before the next one of the subscriber
\* begins, also when it awaits.
C5_OneHandlerAtATime == \A s \in Subscribers : Cardinality(InProgress(s)) <= 1

\* The orders the entries of the two sides hold
BookOrders(bk) ==
    UNION {{bk.entries[e].orders[i] : i \in DOMAIN bk.entries[e].orders} : e \in Attached(bk)}

\* C6: after OrderBookInit(status, orders) the Order Book holds exactly the
\* orders of the event, the reverse index exactly their identifiers, and
\* Market.status is the event's status.
C6_InitReplacesBook ==
    Handled("init")
        => /\ BookOrders(book) = Range(hist.ev.orders)
           /\ DOMAIN book.order_entry_index = {o.id : o \in Range(hist.ev.orders)}
           /\ status = hist.ev.status

\* What a reader of the Market sees of the book: the best prices and, per
\* side, the price levels with their volumes
Levels(bk, side) == [p \in DOMAIN bk[side] |-> Volume(bk.entries[bk[side][p]])]

Observable(bk) ==
    [bid_price |-> BidPrice(bk), ask_price |-> AskPrice(bk),
     bids |-> Levels(bk, "bids"), asks |-> Levels(bk, "asks")]

\* The last two events the manager handled are the same OrderBookInit event
InitTwice == Handled("init") /\ hist.prev_ev = hist.ev

\* C7: applying the same OrderBookInit event twice in a row leaves the book
\* observably as the first application left it.
C7_InitIdempotent == InitTwice => Observable(book) = Observable(hist.book_before)

\* A snapshot with orders was applied twice, the first time on a book that
\* held something else.
C7_Witness ==
    /\ InitTwice
    /\ Len(hist.ev.orders) > 1
    /\ BookOrders(book) # Range(hist.ev.orders)

\* The manager's last remove_order was for an identifier the index did not hold
RemovedUnknown ==
    /\ Handled("removed")
    /\ hist.ev.order_id \notin DOMAIN hist.book_before.order_entry_index

\* C8: remove_order for an identifier that is not in the reverse index raises
\* nothing and leaves bids, asks and the reverse index as they were.
C8_RemoveUnknownIsNoop == RemovedUnknown => (book = hist.book_before /\ ~hist.raised)

\* It happened on a book that holds another order.
C8_Witness == RemovedUnknown /\ book.order_entry_index # EmptyDict

\* C9: bid_price is the highest price among the bid price levels, ask_price
\* the lowest among the ask price levels, and each is Amount(0) when its side
\* has no price level.
C9_BestPrices ==
    /\ BidPrice(book) = IF DOMAIN book.bids = {} THEN 0 ELSE SetMax(DOMAIN book.bids)
    /\ AskPrice(book) = IF DOMAIN book.asks = {} THEN 0 ELSE SetMin(DOMAIN book.asks)

\* C10: whenever both sides of the book are non-empty, the best bid is not
\* above the best ask.
C10_BookNotCrossed ==
    (DOMAIN book.bids # {} /\ DOMAIN book.asks # {}) => BidPrice(book) <= AskPrice(book)

\* The manager's last operation was a Trade whose price is defined
TradeApplied == Handled("trade") /\ hist.ev.base_amount # 0

\* The identifiers of the orders the entries of the two sides hold
RestingIds(bk) == {o.id : o \in BookOrders(bk)}

\* C11: applying a Trade sets Market.current_price to counter_amount /
\* base_amount and removes the maker order from the book (no side holds it and
\* the reverse index does not name it); the taker identifier is not looked up,
\* so a resting order with that identifier stays in the book and in the index.
C11_TradeApplies ==
    TradeApplied
        => /\ current_price = Divide(hist.ev.counter_amount, hist.ev.base_amount)
           /\ hist.ev.maker_order_id \notin DOMAIN book.order_entry_index
           /\ hist.ev.maker_order_id \notin RestingIds(book)
           /\ hist.ev.taker_order_id \in RestingIds(hist.book_before)
                  => /\ hist.ev.taker_order_id \in RestingIds(book)
                     /\ hist.ev.taker_order_id \in DOMAIN book.order_entry_index

\* The step is the manager's on_trade for a Trade whose price is defined
TradeStep ==
    /\ ManagerRuns("trade")
    /\ Head(ready).event.base_amount # 0
    /\ started'["manager"] # started["manager"]

\* The tickers among the tasks, with their publish numbers
TickersIn(q) == {[event |-> t.event, n |-> t.n] : t \in {x \in Range(q) : x.event.type = "ticker"}}

\* C12: the manager's handling of a Trade publishes on the feed a TickerUpdate
\* whose current_price, bid_price, ask_price and status are the Market's values
\* right after the trade is applied.
C12_TradePublishesTicker ==
    [][TradeStep
         => /\ npublished' = npublished + 1
            /\ [event |-> MakeTicker(current_price', book', status'), n |-> npublished']
                   \in TickersIn(ready')]_vars

\* C13: an OrderBookItemAdded event the manager applies before any
\* OrderBookInit leaves the Order Book as it was.
C13_AddedBeforeInitIgnored == (Handled("added") /\ ~synced) => book = hist.book_before

\* C14: applying MarketStatusChanged(status) sets Market.status to the event's
\* status and leaves bids, asks, the reverse index and current_price as they
\* were.
C14_StatusChangeFrame ==
    Handled("status")
        => /\ status = hist.ev.status
           /\ book = hist.book_before
           /\ current_price = hist.price_before

\* The status changed on a Market that holds orders and has a price.
C14_Witness ==
    /\ Handled("status")
    /\ status # hist.status_before
    /\ book.order_entry_index # EmptyDict
    /\ current_price # 0

\* The book read through a Market's OrderBook instance: self.bids, self.asks
\* and self.order_entry_index resolve to the attributes of the class
BookSeenThrough(market) == book

\* The step is add_order, remove_order or clear on the first Market's book
StepOnFirstBook == hist' # hist

\* The step is add_order or remove_order on the second Market's book
StepOnPeerBook == peer.constructed /\ peer'.handled # peer.handled

\* C15: add_order, remove_order or clear on the Order Book of one Market
\* leaves bids, asks and the reverse index read through another Market's
\* Order Book as they were.
C15_BooksIndependent ==
    [][/\ (peer.constructed /\ StepOnFirstBook)
            => BookSeenThrough("peer")' = BookSeenThrough("peer")
       /\ StepOnPeerBook => BookSeenThrough("first")' = BookSeenThrough("first")]_vars

\* C16: an event raised on one feed instance has a delivery only to the
\* subscribers of that feed instance: the first Market's manager gets none of
\* the events raised on the second Market's feed, and the second Market's
\* manager only those.
C16_FeedsIndependent ==
    \A t \in Range(ready) :
        /\ t.sub = "manager" => (peer.constructed => t.n \notin peer.raised_on)
        /\ t.sub = PeerManager => t.n \in peer.raised_on

\* The tasks in the loop's FIFO whose handler has not begun
PendingStarts == {i \in DOMAIN ready : ready[i].phase = "start"}

\* Each delivery owed has exactly one task waiting to begin, and no task
\* waits for a delivery that is not owed
OnePendingPerDelivery ==
    /\ \A i \in PendingStarts : <<ready[i].sub, ready[i].n>> \in owed
    /\ \A d \in owed :
           Cardinality({i \in PendingStarts : <<ready[i].sub, ready[i].n>> = d}) = 1

\* C17: every event raised with raise_event is delivered exactly once to each
\* subscriber that is in the list at the moment of the call: one handler task
\* per subscriber exists for it, and under fair scheduling of the loop's tasks
\* every handler begins: in the end no delivery is owed.
C17_EventuallyDeliveredOnce ==
    /\ []OnePendingPerDelivery
    /\ <>[](owed = {})

\* Both subscribers have had the handlers of all the events begin, the last
\* of at least two events included.
C17_Witness ==
    /\ npublished >= 2
    /\ owed = {}
    /\ started["manager"] = npublished
    /\ started["other"] = npublished

\* The step is a handler of the manager that ends in an exception
FailingStep == hist'.raised /\ hist' # hist

\* C18: a failure while the manager applies an event stays in that handler's
\* task: the other tasks and the subscriber list are as raise_event left
\* them, and every event raised before or after it is still handled by the
\* manager.
C18_FailureIsolated ==
    /\ [][FailingStep
             => /\ ready' = Tail(ready)
                /\ subscribers' = subscribers
                /\ owed' = Delivered]_vars
    /\ hist.raised ~> [](owed = {})

\* In core/market.py the removal of id1 failed on a price level that had
\* gone, and the snapshot raised after it was applied.
C18_Witness ==
    /\ Handled("init")
    /\ hist.prev_ev.type = "removed"
    /\ "id2" \notin DOMAIN hist.book_before.order_entry_index
    /\ "id2" \in DOMAIN book.order_entry_index
    /\ hist.book_before.bids = EmptyDict
    /\ hist.book_before.order_entry_index # EmptyDict

\* A Trade with a zero base_amount failed and the Trade raised after it was
\* applied: the price is set.
C18_WitnessZeroBase ==
    /\ Handled("trade")
    /\ hist.ev.base_amount # 0
    /\ hist.prev_ev.type = "trade"
    /\ hist.prev_ev.base_amount = 0
    /\ hist.price_before = 0
    /\ current_price = 10050

\* C19: a subscriber whose handler has begun and stays suspended holds up
\* neither raise_event nor the other handlers: from a state with a suspended
\* handler on, whether or not it ever ends, every delivery raise_event owes,
\* for the events raised before and after, is made.
C19_SlowSubscriberDoesNotBlock == (suspended # {}) ~> [](owed = {})

\* A handler of the other subscriber is suspended while the manager and the
\* subscriber itself have begun the handler of a later event.
C19_Witness ==
    \E t \in suspended :
        /\ t.sub = "other"
        /\ started["manager"] > t.n
        /\ started["other"] > t.n
        /\ owed = {}

C21_SpreadUndefinedWhenOneSided ==
    IF DOMAIN book.bids = {} \/ DOMAIN book.asks = {}
    THEN Spread(book) \notin Int
    ELSE Spread(book) = AskPrice(book) - BidPrice(book)

\* The entries of the two sides that hold an order under this identifier
HoldersOf(bk, id) == {e \in Attached(bk) : id \in DOMAIN bk.entries[e].orders}

\* C22: each order identifier is held by at most one price-level entry of the
\* two sides, which is the entry the reverse index names, and after
\* remove_order(id) no entry of either side holds the identifier.
C22_OneEntryPerIdentifier ==
    /\ \A id \in OrderIds :
           /\ Cardinality(HoldersOf(book, id)) <= 1
           /\ \A e \in HoldersOf(book, id) :
                  /\ id \in DOMAIN book.order_entry_index
                  /\ book.order_entry_index[id] = e
    /\ (Handled("removed") /\ ~hist.raised) => HoldersOf(book, hist.ev.order_id) = {}

\* The last two events the manager handled are the same OrderBookItemAdded
AddedTwice == Handled("added") /\ hist.prev_ev = hist.ev

\* C23: add_order called a second time with the same order leaves the book as
\* the first call left it: the price level holds the order once, its volume
\* counts it once, and the reverse index maps the identifier once.
C23_AddIdempotent ==
    AddedTwice
        => /\ book = hist.book_before
           /\ Levels(book, "bids") = Levels(hist.book_before, "bids")
           /\ Levels(book, "asks") = Levels(hist.book_before, "asks")

\* The order was added twice to a price level that holds another order too.
C23_Witness ==
    /\ AddedTwice
    /\ Cardinality(DOMAIN book.entries[book.order_entry_index[hist.ev.order.id]].orders) > 1

\* The prices of a sequence never rise
Descending(q) == \A i \in DOMAIN q : \A j \in DOMAIN q : i < j => q[i] >= q[j]

\* The prices of a sequence never fall
Ascending(q) == \A i \in DOMAIN q : \A j \in DOMAIN q : i < j => q[i] <= q[j]

\* C24: iterating the Market's bids view yields the price levels from the
\* highest price down, and iterating its asks view from the lowest price up.
C24_DepthViewOrder == Descending(BidsView(book)) /\ Ascending(AsksView(book))


\* C25: remove_order completes without raising in every book the program
\* reaches, and the only price levels it takes out of a side are levels that
\* hold no order other than the removed one.
LevelsDropped(before, after, side) ==
    {p \in DOMAIN before[side] : p \notin DOMAIN after[side]}

OthersAt(bk, side, p, id) == DOMAIN bk.entries[bk[side][p]].orders \ {id}

C25_RemoveNeverRaises ==
    Handled("removed")
        => /\ ~hist.raised
           /\ \A side \in {"bids", "asks"} :
                  \A p \in LevelsDropped(hist.book_before, book, side) :
                      OthersAt(hist.book_before, side, p, hist.ev.order_id) = {}


\* The step is the manager's on_ticker for the ticker at the head of the loop
TickerStep ==
    /\ ManagerRuns("ticker")
    /\ started'["manager"] # started["manager"]

\* The manager's tasks in q for the tickers published as number n
ManagerTickers(q, n) ==
    {i \in DOMAIN q : q[i].sub = "manager" /\ q[i].n = n /\ q[i].event.type = "ticker"}

\* on_trade publishes once: one raise_event, one task for the manager
OneTickerPerTrade ==
    [][TradeStep
         => /\ npublished' = npublished + 1
            /\ Len(ready') = Len(Tail(ready)) + Len(subscribers)
            /\ Cardinality(ManagerTickers(ready', npublished')) = 1]_vars

\* The ticker that comes back to the manager changes nothing and publishes
\* nothing
TickerIsInert ==
    [][TickerStep
         => /\ ready' = Tail(ready)
            /\ UNCHANGED <<book, status, current_price, npublished, subscribers>>]_vars

\* No delivery stays pending
Quiescent == ready = <<>> /\ owed = {}

\* C26: the manager's handling of one Trade publishes exactly one
\* TickerUpdate; the delivery of that ticker to the manager changes no state
\* and publishes nothing; every finite sequence of published events ends in a
\* state with no pending delivery.
C26_TickerDoesNotFeedBack ==
    /\ OneTickerPerTrade
    /\ TickerIsInert
    /\ <>[]Quiescent


\* The tasks of q that stand ahead of the task at position j and are for the
\* same subscriber
AheadOf(q, j) == {i \in DOMAIN q : i < j /\ q[i].sub = q[j].sub}

\* C27: the TickerUpdate made for a Trade reaches each subscriber before any
\* event published after that Trade: when on_trade publishes the ticker, no
\* subscriber has a delivery of a later-published event ahead of the ticker's
\* in the loop's FIFO.
C27_TickerBeforeLaterEvents ==
    [][(TradeStep /\ npublished' = npublished + 1)
         => \A j \in DOMAIN ready' :
                ready'[j].n = npublished'
                    => \A i \in AheadOf(ready', j) : ready'[i].n <= Head(ready).n]_vars


\* The step takes subscriber s out of the feed's list
UnsubscribeStep(s) == s \in Range(subscribers) /\ s \notin Range(subscribers')

\* The deliveries still owed to subscriber s
PendingFor(s) == {d \in owed : d[1] = s}

\* The list without subscriber s
Without(l, s) == SelectSeq(l, LAMBDA x : x # s)

\* C28: unsubscribe(s), for a subscriber in the list once, leaves the other
\* registrations and the handler tasks already created as they are; an event
\* published afterwards gets no task for s; the deliveries of the events
\* published before are still made to s.
C28_UnsubscribeStopsLaterEvents ==
    /\ [][\A s \in Subscribers :
              UnsubscribeStep(s)
                  => /\ subscribers' = Without(subscribers, s)
                     /\ ready' = ready
                     /\ suspended' = suspended
                     /\ owed' = owed]_vars
    /\ [][npublished' # npublished
              => \A i \in DOMAIN ready' :
                     ready'[i].n = npublished' => ready'[i].sub \in Range(subscribers)]_vars
    /\ \A s \in Subscribers :
           (s \notin Range(subscribers) /\ PendingFor(s) # {}) ~> (PendingFor(s) = {})

\* The subscriber has left the list while a delivery of an earlier event to
\* it is pending, and a later event has tasks for the manager only.
C28_Witness ==
    /\ "other" \notin Range(subscribers)
    /\ \E i \in DOMAIN ready :
           /\ ready[i].sub = "other"
           /\ ready[i].phase = "start"
           /\ \E j \in DOMAIN ready :
                  /\ ready[j].n > ready[i].n
                  /\ ready[j].sub = "manager"
                  /\ ready[j].event.type # "ticker"
                  /\ \A k \in DOMAIN ready : ready[k].n = ready[j].n => ready[k].sub = "manager"


\* The calls made with use_cached = True
CachedCalls == {c \in DOMAIN info_calls : info_calls[c].use_cached}

\* The calls that have issued a request
Fetchers == {c \in DOMAIN info_calls : info_calls[c].requests > 0}

\* The calls that are between the test of the cache and the release
Fetching == {c \in DOMAIN info_calls : info_calls[c].pc \in {"status", "pairs"}}

\* The use_cached calls for symbol s that fetched both endpoints and returned
Filled(s) ==
    {c \in CachedCalls : /\ info_calls[c].symbol = s
                         /\ info_calls[c].requests = 2
                         /\ info_calls[c].outcome = "returned"}

\* C29 as stated: from the empty cache, one call at most among the calls with
\* use_cached = True issues requests, every other one returns the cached
\* MarketInfo, and a call with use_cached = False issues requests.
C29_OneCallFetches ==
    /\ Cardinality(CachedCalls \cap Fetchers) <= 1
    /\ \A c \in CachedCalls \ Fetchers :
           info_calls[c].pc = "done" => info_calls[c].outcome = "returned"
    /\ \A c \in DOMAIN info_calls \ CachedCalls :
           info_calls[c].pc = "done" => c \in Fetchers

\* C29, amended: the calls are serialized by the lock: one call at a time is
\* between the test of the cache and the release.  A call with use_cached =
\* True issues requests exactly when the cache does not hold its symbol at the
\* moment it has the lock, and otherwise returns the cached MarketInfo without
\* a request; for each symbol one such call at most fetches both endpoints
\* and returns.  A call with use_cached = False always issues requests.
C29_FetchOnlyOnMiss ==
    /\ Cardinality(Fetching) <= 1
    /\ \A c \in Fetching : market_info_lock.holder = c
    /\ \A c \in CachedCalls :
           /\ c \in Fetchers => info_calls[c].missed
           /\ (info_calls[c].pc = "done" /\ ~info_calls[c].missed)
                  => /\ c \notin Fetchers
                     /\ info_calls[c].outcome = "returned"
                     /\ info_calls[c].symbol \in DOMAIN market_info
    /\ \A s \in Symbols : Cardinality(Filled(s)) <= 1
    /\ \A c \in DOMAIN info_calls \ CachedCalls :
           info_calls[c].pc = "done" => c \in Fetchers

\* One call has fetched both endpoints and returned; another call for the
\* same symbol, which waited for the lock meanwhile, has returned the cached
\* info without a request.
C29_Witness ==
    \E c \in CachedCalls : \E d \in CachedCalls :
        /\ c \in Filled(info_calls[c].symbol)
        /\ d # c
        /\ info_calls[d].symbol = info_calls[c].symbol
        /\ info_calls[d].waited
        /\ info_calls[d].requests = 0
        /\ info_calls[d].outcome = "returned"

=============================================================================
